---- MODULE Spec2Model ----
(***************************************************************************)
(* A model of src/src/App.jsx (options-extrinsic-analyzer): the relay      *)
(* fetch routine fetchWithProxies, the expiration matcher                  *)
(* findClosestExpiry, the analyzer analyzeCallOptions, the ranker          *)
(* rankByEfficiency, the market data calls fetchSpotPrice and              *)
(* fetchOptionChain, and the pipeline runAnalysis of the component, one    *)
(* run at a time and as activations that overlap.                          *)
(*                                                                         *)
(* Units.  Money (strike, bid, ask, lastPrice, spot, mid, intrinsic,       *)
(* extrinsic) is counted in ticks of 0.005; quoted prices are whole cents, *)
(* i.e. even tick counts, so that (bid + ask) / 2 is a whole tick count.   *)
(* Delta is counted in thousandths.  Timestamps are Unix seconds, the      *)
(* clock is in milliseconds.  Quotients that are not whole (extrinsic per  *)
(* day, the scores) are exact fractions [n, d] with d > 0.                 *)
(* An absent / null / undefined value is the empty tuple, a present value  *)
(* v is the one-element tuple <<v>>.                                       *)
(***************************************************************************)
EXTENDS Integers, Sequences, FiniteSets, TLC

VARIABLES
  fw,          \* the activation of fetchWithProxies: its arguments, locals, position, and what it did
  options,     \* rankByEfficiency: the argument
  ranked,      \* rankByEfficiency: the returned list, Null before the call
  available,   \* findClosestExpiry: the list of expiration timestamps
  targetDay,   \* findClosestExpiry: the target date (day number of the ISO date string)
  best,        \* findClosestExpiry: the returned value, Null before the call
  calls,       \* analyzeCallOptions: the raw call contracts
  spotPrice,   \* analyzeCallOptions: the spot price
  expiryTs,    \* analyzeCallOptions: the expiration timestamp
  numStrikes,  \* analyzeCallOptions: the half window
  nowMs,       \* Date.now() read by daysUntilExpiry
  analyzed,    \* analyzeCallOptions: the returned list, Null before the call
  spotData,    \* fetchSpotPrice: the parsed chart response
  spotResult,  \* fetchSpotPrice: what the call returned or threw, Null before it settles
  ui,          \* OptionsAnalyzer: the component's state (the useState cells)
  run,         \* runAnalysis: the activation's position, captured inputs, locals, the
               \* response parsed last (data) and the calls made so far (invoked)
  acts,        \* runAnalysis, overlapping: the activations started so far, in order
  wrote        \* for each cell of the component's state, the activation that set it last

fetchVars   == <<fw>>
rankVars    == <<options, ranked>>
expiryVars  == <<available, targetDay, best>>
analyzeVars == <<calls, spotPrice, expiryTs, numStrikes, nowMs, analyzed>>
spotVars    == <<spotData, spotResult>>
runVars     == <<ui, run>>
overlapVars == <<acts, wrote>>
notFetch   == <<rankVars, expiryVars, analyzeVars, spotVars, runVars, overlapVars>>
notRank    == <<fetchVars, expiryVars, analyzeVars, spotVars, runVars, overlapVars>>
notExpiry  == <<fetchVars, rankVars, analyzeVars, spotVars, runVars, overlapVars>>
notAnalyze == <<fetchVars, rankVars, expiryVars, spotVars, runVars, overlapVars>>
notSpot    == <<fetchVars, rankVars, expiryVars, analyzeVars, runVars, overlapVars>>
notRun     == <<rankVars, expiryVars, analyzeVars, spotVars, overlapVars>>
notOverlap == <<fetchVars, rankVars, expiryVars, analyzeVars, spotVars, run>>
vars == <<fw, options, ranked, available, targetDay, best,
          calls, spotPrice, expiryTs, numStrikes, nowMs, analyzed,
          spotData, spotResult, ui, run, acts, wrote>>

----------------------------------------------------------------------------
(* Nullable values *)

Null == <<>>
Some(v) == <<v>>
IsNull(x) == x = <<>>
Val(x) == x[1]

Max(a, b) == IF a >= b THEN a ELSE b
Min(a, b) == IF a <= b THEN a ELSE b
Abs(a) == IF a < 0 THEN -a ELSE a

----------------------------------------------------------------------------
(* fetchWithProxies *)

\* The relay builders, in the order of the array literal.
proxyBuilders == <<"corsproxy", "allorigins", "codetabs", "thingproxy", "direct">>

DefaultMaxAttempts == 3
MinBodyLen == 30
BackoffMs == 1500

Labels == {"Fetching AAPL spot price", "Fetching AAPL options chain"}
Bodies == {"chartJson", "chainJson"}

\* What onStatus can be: no callback, one that returns, one that throws.
StatusModes == {"absent", "returns", "throws"}
CallbackError == "status callback failed"

\* Errors fetch() or resp.text() can reject with; an Error may have an empty message.
TransportErrors == {"Failed to fetch", "The operation timed out.", ""}

\* Response bodies: their length and what JSON.parse makes of them (Null: it throws).
Texts ==
  {[len |-> 0, json |-> Null], [len |-> 29, json |-> Some("chartJson")]}
  \cup {[len |-> 30, json |-> Some(b)] : b \in Bodies}
  \cup {[len |-> 64, json |-> Null]}

\* The frame of a call that has not started to run.
NewCall(onStatus, label, maxAttempts) ==
  [pc |-> "start", onStatus |-> onStatus, label |-> label, maxAttempts |-> maxAttempts,
   attempt |-> 0, p |-> 0, lastErr |-> Null,
   requests |-> <<>>, sleeps |-> <<>>, statusCalls |-> <<>>,
   nAttempts |-> 0, nFailed |-> 0, lastOutcome |-> "none",
   resp |-> Null, data |-> Null, thrown |-> Null]

\* The Error thrown after the loops: label and lastErr?.message || "All proxies failed".
FailureMessage(label, lastErr) ==
  [label |-> label,
   detail |-> IF IsNull(lastErr) \/ Val(lastErr) = "" THEN "All proxies failed" ELSE Val(lastErr)]

\* Variant of BuilderIndex that starts every round at the first builder.
BuilderIndexUnrotated(attempt, p) == (p % Len(proxyBuilders)) + 1

\* The builder the p-th attempt of round attempt goes through.
BuilderIndex(attempt, p) == ((attempt + p) % Len(proxyBuilders)) + 1

\* Variant of SleepMs with the same pause after every round.
SleepMsFlat(attempt) == BackoffMs

\* The pause after round attempt (0-based).
SleepMs(attempt) == BackoffMs * (attempt + 1)

\* The synchronous run of the two loops from position (attempt, p) to the next await
\* (fetch, sleep) or to the throw after the loops.
\* Variant of LoopDone that stops one round early.
LoopDoneEarly(f) == f.attempt >= f.maxAttempts - 1
\* The outer loop's condition attempt < maxAttempts is false.
LoopDone(f) == f.attempt >= f.maxAttempts

RECURSIVE RunLoop(_)
RunLoop(f) ==
  IF LoopDone(f)
  THEN [f EXCEPT !.pc = "thrown", !.thrown = Some(FailureMessage(f.label, f.lastErr))]
  ELSE IF f.p >= Len(proxyBuilders)
  THEN IF f.attempt < f.maxAttempts - 1
       THEN [f EXCEPT !.pc = "sleeping", !.sleeps = Append(@, SleepMs(f.attempt))]
       ELSE RunLoop([f EXCEPT !.attempt = @ + 1, !.p = 0])
  ELSE IF f.onStatus = "throws"
  THEN RunLoop([f EXCEPT !.statusCalls = Append(@, <<f.attempt + 1, f.p + 1>>),
                         !.lastErr = Some(CallbackError),
                         !.nAttempts = @ + 1, !.nFailed = @ + 1,
                         !.lastOutcome = "threw",
                         !.p = @ + 1])
  ELSE [f EXCEPT !.pc = "fetching",
                 !.statusCalls = IF f.onStatus = "absent" THEN @
                                 ELSE Append(@, <<f.attempt + 1, f.p + 1>>),
                 !.requests = Append(@, BuilderIndex(f.attempt, f.p)),
                 !.nAttempts = @ + 1]

\* Variant of SoftFail that records the kind of failure as the last error.
SoftFailRecorded(f, kind) ==
  RunLoop([f EXCEPT !.nFailed = @ + 1, !.lastOutcome = kind,
                    !.lastErr = Some(kind), !.p = @ + 1])

\* continue: the attempt is given up without touching lastErr.
SoftFail(f, kind) ==
  RunLoop([f EXCEPT !.nFailed = @ + 1, !.lastOutcome = kind, !.p = @ + 1])

\* catch (e) { lastErr = e; }
CatchFail(f, e) ==
  RunLoop([f EXCEPT !.nFailed = @ + 1, !.lastOutcome = "threw",
                    !.lastErr = Some(e), !.p = @ + 1])

IdleFetch == fw = [pc |-> "idle"]

InitFetch ==
  \E onStatus \in StatusModes, label \in Labels, maxAttempts \in 1..DefaultMaxAttempts :
    fw = NewCall(onStatus, label, maxAttempts)

\* The call runs up to its first await.
Call ==
  /\ fw.pc = "start"
  /\ UNCHANGED notFetch
  /\ fw' = RunLoop(fw)

\* await fetch(...) rejects: a transport error or the 12 s timeout.
FetchRejects ==
  /\ fw.pc = "fetching"
  /\ UNCHANGED notFetch
  /\ \E e \in TransportErrors : fw' = CatchFail(fw, e)

\* The response has a non-OK status.
FetchNotOk ==
  /\ fw.pc = "fetching"
  /\ UNCHANGED notFetch
  /\ fw' = SoftFail(fw, "badStatus")

\* The response is OK: the body is read next.
FetchOk ==
  /\ fw.pc = "fetching"
  /\ UNCHANGED notFetch
  /\ fw' = [fw EXCEPT !.pc = "reading"]

\* await resp.text() rejects.
TextRejects ==
  /\ fw.pc = "reading"
  /\ UNCHANGED notFetch
  /\ \E e \in TransportErrors : fw' = CatchFail(fw, e)

TooShort(text) == text.len = 0 \/ text.len < MinBodyLen

\* Variant of OnText that also rejects a body of exactly 30 characters.
OnTextRejectingMinLen(f, text) ==
  IF text.len = 0 \/ text.len <= MinBodyLen THEN SoftFail(f, "shortBody")
  ELSE IF IsNull(text.json) THEN SoftFail(f, "badJson")
  ELSE [f EXCEPT !.pc = "returned", !.lastOutcome = "ok", !.data = text.json]

\* What the attempt does with the body: the length check, JSON.parse, the return.
OnText(f, text) ==
  IF text.len = 0 \/ text.len < MinBodyLen THEN SoftFail(f, "shortBody")
  ELSE IF IsNull(text.json) THEN SoftFail(f, "badJson")
  ELSE [f EXCEPT !.pc = "returned", !.lastOutcome = "ok", !.data = text.json]

\* The body that arrives is empty or shorter than 30 characters.
TextTooShort ==
  /\ fw.pc = "reading"
  /\ UNCHANGED notFetch
  /\ \E text \in Texts :
       /\ TooShort(text)
       /\ fw' = OnText([fw EXCEPT !.resp = Some(text)], text)

\* The body that arrives is long enough and JSON.parse throws on it.
TextNotJson ==
  /\ fw.pc = "reading"
  /\ UNCHANGED notFetch
  /\ \E text \in Texts :
       /\ ~TooShort(text) /\ IsNull(text.json)
       /\ fw' = OnText([fw EXCEPT !.resp = Some(text)], text)

\* The body that arrives is long enough and parses.
TextParsed ==
  /\ fw.pc = "reading"
  /\ UNCHANGED notFetch
  /\ \E text \in Texts :
       /\ ~TooShort(text) /\ ~IsNull(text.json)
       /\ fw' = OnText([fw EXCEPT !.resp = Some(text)], text)

\* The pause between two rounds ends.
SleepDone ==
  /\ fw.pc = "sleeping"
  /\ UNCHANGED notFetch
  /\ fw' = RunLoop([fw EXCEPT !.attempt = @ + 1, !.p = 0])

NextFetch ==
  \/ Call \/ FetchRejects \/ FetchNotOk \/ FetchOk \/ TextRejects
  \/ TextTooShort \/ TextNotJson \/ TextParsed \/ SleepDone

----------------------------------------------------------------------------
(* Exact fractions and the stable sort of Array.prototype.sort *)

Rat(n, d) == [n |-> n, d |-> d]
\* The sign of a - b, as the comparators' subtraction yields it.
RatCmp(a, b) ==
  LET l == a.n * b.d
      r == b.n * a.d
  IN  IF l < r THEN -1 ELSE IF l > r THEN 1 ELSE 0

Elements(s) == {s[i] : i \in 1..Len(s)}

\* s sorted by the comparator cmp, given as the table of its results on the elements
\* of s (negative: first argument first); stable: an element goes after every
\* element that does not compare greater.
SortWith(s, cmp) ==
  LET Insert(t, x) ==
        LET k == Cardinality({i \in 1..Len(t) : cmp[t[i], x] <= 0})
        IN  SubSeq(t, 1, k) \o <<x>> \o SubSeq(t, k + 1, Len(t))
      sorted[k \in 0..Len(s)] ==
        IF k = 0 THEN <<>> ELSE Insert(sorted[k - 1], s[k])
  IN  sorted[Len(s)]

----------------------------------------------------------------------------
(* rankByEfficiency *)

ExtrinsicMin == 2

\* options.some(o => o.efficiencyScore != null)
HasGreeks(opts) == \E i \in 1..Len(opts) : ~IsNull(opts[i].efficiencyScore)

\* Variant of Rankable that keeps extrinsic = 0.01.
RankableOrEqual(opts) == SelectSeq(opts, LAMBDA o : o.extrinsic >= ExtrinsicMin)
\* options.filter(o => o.extrinsic > 0.01)
Rankable(opts) == SelectSeq(opts, LAMBDA o : o.extrinsic > ExtrinsicMin)

\* rankable.filter(o => o.efficiencyScore != null && o.efficiencyScore > 0)
WithGreeks(rankable) ==
  SelectSeq(rankable, LAMBDA o : ~IsNull(o.efficiencyScore) /\ Val(o.efficiencyScore).n > 0)

\* rankable.filter(o => o.efficiencyScore == null || o.efficiencyScore <= 0)
NoGreeks(rankable) ==
  SelectSeq(rankable, LAMBDA o : IsNull(o.efficiencyScore) \/ Val(o.efficiencyScore).n <= 0)

\* Variant of ByEfficiencyDesc with the operands swapped.
ByEfficiencyAsc(a, b) == RatCmp(Val(a.efficiencyScore), Val(b.efficiencyScore))
\* (a, b) => b.efficiencyScore - a.efficiencyScore
ByEfficiencyDesc(a, b) == RatCmp(Val(b.efficiencyScore), Val(a.efficiencyScore))

\* Variant of ByFallbackDesc that never returns 0.
ByFallbackDescTiesLast(a, b) == IF RatCmp(b.fallbackScore, a.fallbackScore) >= 0 THEN 1 ELSE -1
\* (a, b) => b.fallbackScore - a.fallbackScore
ByFallbackDesc(a, b) == RatCmp(b.fallbackScore, a.fallbackScore)

\* .map((o, i) => ({ ...o, rank: i + 1 }))
AssignRanks(s) == [i \in 1..Len(s) |-> [rank |-> i] @@ s[i]]

\* withGreeks.sort(...), noGreeks.sort(...), rankable.sort(...)
SortByEfficiency(s) == SortWith(s, [a \in Elements(s), b \in Elements(s) |-> ByEfficiencyDesc(a, b)])
SortByFallback(s) == SortWith(s, [a \in Elements(s), b \in Elements(s) |-> ByFallbackDesc(a, b)])

\* Variant of rankByEfficiency that appends noGreeks unsorted.
rankByEfficiencyUnsortedRest(opts) ==
  LET rankable == Rankable(opts)
  IN  IF HasGreeks(opts)
      THEN AssignRanks(SortByEfficiency(WithGreeks(rankable)) \o NoGreeks(rankable))
      ELSE AssignRanks(SortByFallback(rankable))

rankByEfficiency(opts) ==
  LET rankable == Rankable(opts)
  IN  IF HasGreeks(opts)
      THEN AssignRanks(SortByEfficiency(WithGreeks(rankable))
                       \o SortByFallback(NoGreeks(rankable)))
      ELSE AssignRanks(SortByFallback(rankable))

\* The lists the ranker is applied to: up to MaxOptions contracts in ascending strike
\* order (1.00 apart), with every combination of the three fields the ranker reads.
MaxOptions == 3
ExtrinsicValues == {ExtrinsicMin, ExtrinsicMin + 1}
ScoreValues == {Null, Some(Rat(0, 1)), Some(Rat(1, 2)), Some(Rat(2, 4)), Some(Rat(3, 1))}
FallbackValues == {Rat(1, 1), Rat(2, 1)}

IdleRank == options = <<>> /\ ranked = Null

InitRank ==
  /\ \E n \in 0..MaxOptions :
       \E e \in [1..n -> ExtrinsicValues], sc \in [1..n -> ScoreValues],
          f \in [1..n -> FallbackValues] :
         options = [i \in 1..n |-> [strike |-> 200 * i, extrinsic |-> e[i],
                                    efficiencyScore |-> sc[i], fallbackScore |-> f[i]]]
  /\ ranked = Null

Rank ==
  /\ IsNull(ranked)
  /\ ranked' = Some(rankByEfficiency(options))
  /\ UNCHANGED <<options, notRank>>

NextRank == Rank

----------------------------------------------------------------------------
(* findClosestExpiry *)

DaySec == 86400
CloseSec == 57600

\* new Date(targetDateStr + "T16:00:00").getTime() / 1000, for the date with day number day
TargetAnchor(day) == day * DaySec + CloseSec

\* Variant of Closer that also replaces the best on an equal distance.
CloserOrEqual(target, bestTs, ts) == IF Abs(ts - target) <= Abs(bestTs - target) THEN ts ELSE bestTs
\* (best, ts) => Math.abs(ts - target) < Math.abs(best - target) ? ts : best
Closer(target, bestTs, ts) == IF Abs(ts - target) < Abs(bestTs - target) THEN ts ELSE bestTs

\* available.reduce(..., available[0]); available[0] of an empty list is undefined
findClosestExpiry(avail, day) ==
  LET target == TargetAnchor(day)
      acc[k \in 0..Len(avail)] ==
        IF k = 0 THEN avail[1] ELSE Closer(target, acc[k - 1], avail[k])
  IN  IF Len(avail) = 0 THEN Null ELSE Some(acc[Len(avail)])

MaxExpiries == 3
MaxDay == 1

\* Timestamps at 00:00, 08:00 and 16:00 of the days 0..MaxDay
Timestamps == {d * DaySec + k * (CloseSec \div 2) : d \in 0..MaxDay, k \in 0..2}

IdleExpiry == available = <<>> /\ targetDay = 0 /\ best = Null

\* Every list of up to MaxExpiries such timestamps, in any order, repeats allowed.
InitExpiry ==
  /\ \E n \in 0..MaxExpiries : available \in [1..n -> Timestamps]
  /\ targetDay \in 0..MaxDay
  /\ best = Null

Match ==
  /\ IsNull(best)
  /\ best' = Some(findClosestExpiry(available, targetDay))
  /\ UNCHANGED <<available, targetDay, notExpiry>>

NextExpiry == Match

----------------------------------------------------------------------------
(* analyzeCallOptions *)

DeltaMin == 10

\* Math.ceil(a / b) for b > 0
CeilDiv(a, b) == -((-a) \div b)

\* The day count without its floor of one day.
daysUntilExpiryUnfloored(ts, clockMs) == CeilDiv(ts * 1000 - clockMs, DaySec * 1000)

\* Math.max(1, Math.ceil((expiryTs - Date.now() / 1000) / 86400))
daysUntilExpiry(ts, clockMs) == Max(1, CeilDiv(ts * 1000 - clockMs, DaySec * 1000))

\* x || 0 for a number that may be missing
OrZero(x) == IF IsNull(x) THEN 0 ELSE Val(x)

\* (a, b) => a.strike - b.strike
ByStrikeAsc(a, b) == a.strike - b.strike

\* The forEach that finds the ATM index (0-based); minDist starts at Infinity (Null).
AtmIndex(sorted, spot) ==
  LET scan[k \in 0..Len(sorted)] ==
        IF k = 0 THEN [minDist |-> Null, atmIdx |-> 0]
        ELSE LET dist == Abs(sorted[k].strike - spot)
                 prev == scan[k - 1]
             IN  IF IsNull(prev.minDist) \/ dist < Val(prev.minDist)
                 THEN [minDist |-> Some(dist), atmIdx |-> k - 1]
                 ELSE prev
  IN  scan[Len(sorted)].atmIdx

\* arr.slice(from, to) with 0 <= from, to <= arr.length (0-based, to exclusive)
Slice(arr, from, to) == SubSeq(arr, from + 1, to)

\* The strike increment taken from the neighbourhood of the ATM index.
Increment(sorted, atmIdx) ==
  IF Len(sorted) > 1
  THEN LET nearby == Slice(sorted, Max(0, atmIdx - 1), Min(Len(sorted), atmIdx + 2))
       IN  IF Len(nearby) >= 2 THEN nearby[2].strike - nearby[1].strike ELSE 1
  ELSE 1

StartIndex(atmIdx, h) == Max(0, atmIdx - h)
\* Variant of EndIndex without the + 1.
EndIndexExclusiveOfWindow(len, atmIdx, h) == Min(len, atmIdx + h)
EndIndex(len, atmIdx, h) == Min(len, atmIdx + h + 1)

\* Variant of MidPrice that always takes the last price.
MidIgnoringQuotes(c) == OrZero(c.lastPrice)
\* (bid > 0 && ask > 0) ? (bid + ask) / 2 : c.lastPrice || 0
MidPrice(c) ==
  LET bid == OrZero(c.bid)
      ask == OrZero(c.ask)
  IN  IF bid > 0 /\ ask > 0 THEN (bid + ask) \div 2 ELSE OrZero(c.lastPrice)

\* Variant of Extrinsic without the floor at 0.
ExtrinsicUnclamped(mid, intrinsic) == mid - intrinsic
\* Math.max(0, spotPrice - strike)
Intrinsic(spot, strike) == Max(0, spot - strike)
\* Math.max(0, mid - intrinsic)
Extrinsic(mid, intrinsic) == Max(0, mid - intrinsic)

\* The efficiency score with a guard that lets the excluded value through.
efficiencyScoreAtThreshold(extrinsicPerDTE, absDelta) ==
  IF ~IsNull(absDelta) /\ Val(absDelta) >= DeltaMin
  THEN Some(Rat(extrinsicPerDTE.n * 1000, extrinsicPerDTE.d * Val(absDelta)))
  ELSE Null

\* absDelta !== null && absDelta > 0.01 ? extrinsicPerDTE / absDelta : null
efficiencyScore(extrinsicPerDTE, absDelta) ==
  IF ~IsNull(absDelta) /\ Val(absDelta) > DeltaMin
  THEN Some(Rat(extrinsicPerDTE.n * 1000, extrinsicPerDTE.d * Val(absDelta)))
  ELSE Null

\* The record built for one selected contract.
Derive(c, spot, dte, increment) ==
  LET strike     == c.strike
      mid        == MidPrice(c)
      intrinsic  == Intrinsic(spot, strike)
      extrinsic  == Extrinsic(mid, intrinsic)
      delta      == c.delta
      absDelta   == IF ~IsNull(delta) THEN Some(Abs(Val(delta))) ELSE Null
      isITM      == strike < spot
      isATM      == 5 * Abs(strike - spot) <= 3 * increment
  IN  [strike |-> strike, mid |-> mid, bid |-> OrZero(c.bid), ask |-> OrZero(c.ask),
       last |-> OrZero(c.lastPrice),
       intrinsic |-> intrinsic, extrinsic |-> extrinsic,
       extrinsicPerDTE |-> Rat(extrinsic, dte),
       efficiencyScore |-> efficiencyScore(Rat(extrinsic, dte), absDelta),
       fallbackScore |-> Rat(extrinsic, dte),
       \* (extrinsic / strike) * (365 / dte) * 100; not finite for a strike of 0
       annualizedYield |-> IF strike = 0 THEN Null
                           ELSE Some(Rat(extrinsic * 365 * 100, strike * dte)),
       delta |-> delta, dte |-> dte,
       moneyness |-> IF isATM THEN "ATM" ELSE IF isITM THEN "ITM" ELSE "OTM",
       contractSymbol |-> c.contractSymbol]

analyzeCallOptions(cs, spot, ts, h, clockMs) ==
  LET dte       == daysUntilExpiry(ts, clockMs)
      sorted    == SortWith(cs, [a \in Elements(cs), b \in Elements(cs) |-> ByStrikeAsc(a, b)])
      atmIdx    == AtmIndex(sorted, spot)
      increment == Increment(sorted, atmIdx)
      selected  == Slice(sorted, StartIndex(atmIdx, h), EndIndex(Len(sorted), atmIdx, h))
  IN  [i \in 1..Len(selected) |-> Derive(selected[i], spot, dte, increment)]

MaxCalls == 3
MaxHalfWindow == 1

StrikeValues == {29000, 30000, 31000, 32000}
SpotValues == {0, 30000, 30500}

\* A contract with a two-sided quote and a delta of 0.5.
Plain(strike, sym) ==
  [strike |-> strike, bid |-> Some(480), ask |-> Some(520), lastPrice |-> Some(500),
   delta |-> Some(500), contractSymbol |-> sym]

\* Chains of up to MaxCalls plainly quoted contracts, in any strike order, strikes may repeat.
PlainChain(cs) ==
  \E n \in 0..MaxCalls :
    \E st \in [1..n -> StrikeValues] : cs = [i \in 1..n |-> Plain(st[i], i)]

\* One contract with every combination of missing, zero and positive bid, ask and last price.
QuoteContracts(sym) ==
  {[strike |-> k, bid |-> b, ask |-> a, lastPrice |-> l, delta |-> Some(500),
    contractSymbol |-> sym] :
     k \in {0, 29000, 32000},
     b \in {Null, Some(0), Some(480), Some(1380)},
     a \in {Null, Some(0), Some(520), Some(1420)},
     l \in {Null, Some(0), Some(640), Some(-200)}}

\* One contract with a missing, zero, tiny or ordinary delta, quoted or not.
DeltaContracts(sym) ==
  {[strike |-> k, bid |-> q, ask |-> q, lastPrice |-> Null, delta |-> d,
    contractSymbol |-> sym] :
     k \in {29000, 32000},
     q \in {Null, Some(1400)},
     d \in {Null, Some(0), Some(DeltaMin), Some(DeltaMin + 1), Some(-500)}}

\* Such a contract alone, or before or after a plain one.
RichChain(cs) ==
  \/ \E c \in QuoteContracts(1) \cup DeltaContracts(1) : cs = <<c>>
  \/ \E c \in QuoteContracts(1) \cup DeltaContracts(1), k \in StrikeValues :
       cs = <<c, Plain(k, 2)>>
  \/ \E c \in QuoteContracts(2) \cup DeltaContracts(2), k \in StrikeValues :
       cs = <<Plain(k, 1), c>>

IdleAnalyze ==
  /\ calls = <<>> /\ spotPrice = 0 /\ expiryTs = 0 /\ numStrikes = 0 /\ nowMs = 0
  /\ analyzed = Null

InitAnalyze ==
  /\ PlainChain(calls) \/ RichChain(calls)
  /\ spotPrice \in SpotValues
  /\ expiryTs \in {d * DaySec : d \in 0..(MaxDay + 1)}
  /\ numStrikes \in 0..MaxHalfWindow
  /\ nowMs \in {(DaySec * 1000) \div 2, DaySec * 1000 + 1}
  /\ analyzed = Null

Analyze ==
  /\ IsNull(analyzed)
  /\ analyzed' = Some(analyzeCallOptions(calls, spotPrice, expiryTs, numStrikes, nowMs))
  /\ UNCHANGED <<calls, spotPrice, expiryTs, numStrikes, nowMs, notAnalyze>>

NextAnalyze == Analyze

----------------------------------------------------------------------------
(* Specifications: one per component, and all of them together *)

----------------------------------------------------------------------------
(* fetchSpotPrice and fetchOptionChain: what they make of the parsed response *)

Ticker == "AAPL"

\* An Error whose message is the given text alone; label and detail are the two parts
\* of the message fetchWithProxies builds ("<label> failed: <detail>").
PlainMessage(text) == [label |-> text, detail |-> ""]

\* The values of a series that are not null, in order: closes.filter(c => c != null)
NonNull(series) == SelectSeq(series, LAMBDA c : ~IsNull(c))

\* indicators?.adjclose?.[0]?.adjclose || indicators?.quote?.[0]?.close: an array,
\* empty or not, is truthy
Closes(result) == IF ~IsNull(result.adjclose) THEN result.adjclose ELSE result.close

\* name: meta.shortName || meta.symbol || ticker
SpotName(meta, ticker) ==
  IF ~IsNull(meta.shortName) THEN Val(meta.shortName)
  ELSE IF ~IsNull(meta.symbol) THEN Val(meta.symbol)
  ELSE ticker

\* fetchSpotPrice after the await: data is the parsed response, data.result its
\* chart.result[0]; if (price) passes over a price that is missing or 0.
spotFromChart(data, ticker) ==
  IF IsNull(data.result)
  THEN [ok |-> FALSE, error |-> PlainMessage("No data returned for AAPL")]
  ELSE LET result == Val(data.result)
           meta   == result.meta
           price  == IF IsNull(meta) THEN Null ELSE Val(meta).regularMarketPrice
           closes == Closes(result)
           valid  == IF IsNull(closes) THEN <<>> ELSE NonNull(Val(closes))
       IN  IF ~IsNull(price) /\ Val(price) # 0
           THEN [ok |-> TRUE, price |-> Val(price), name |-> SpotName(Val(meta), ticker)]
           ELSE IF ~IsNull(closes) /\ Len(valid) > 0
           THEN [ok |-> TRUE, price |-> Val(valid[Len(valid)]), name |-> ticker]
           ELSE [ok |-> FALSE, error |-> PlainMessage("Could not extract price for AAPL")]

\* The metadata of a chart result: missing, or with a price that is missing, 0 or
\* 150.00 and with or without names.
Metas ==
  {Null} \cup
  {Some([regularMarketPrice |-> pr, shortName |-> sn, symbol |-> sy]) :
     pr \in {Null, Some(0), Some(30000)},
     sn \in {Null, Some("Apple Inc.")},
     sy \in {Null, Some("AAPL.MX")}}

\* A historical series: missing, empty, without a value, or with values.
AdjCloseSeries == {Null, Some(<<>>), Some(<<Null>>), Some(<<Some(29000), Null>>)}
CloseSeries == {Null, Some(<<Null>>), Some(<<Some(29500)>>),
                Some(<<Some(29400), Null, Some(29600), Null>>)}

\* The parsed chart responses: without a result, or with every combination of the above.
ChartShapes ==
  {[result |-> Null]} \cup
  {[result |-> Some([meta |-> m, adjclose |-> a, close |-> c])] :
     m \in Metas, a \in AdjCloseSeries, c \in CloseSeries}

IdleSpot == spotData = Null /\ spotResult = Null

InitSpot == (\E c \in ChartShapes : spotData = Some(c)) /\ spotResult = Null

\* The response has arrived: the call returns the price or throws.
SpotSettles ==
  /\ ~IsNull(spotData) /\ IsNull(spotResult)
  /\ spotResult' = Some(spotFromChart(Val(spotData), Ticker))
  /\ UNCHANGED <<spotData, notSpot>>

NextSpot == SpotSettles

\* Variant of chainFromData that takes a missing result for an empty one.
chainFromDataUnchecked(data) ==
  [ok |-> TRUE,
   expirationDates |-> IF IsNull(data.result) \/ IsNull(Val(data.result).expirationDates)
                       THEN <<>> ELSE Val(Val(data.result).expirationDates),
   calls |-> IF IsNull(data.result) \/ IsNull(Val(data.result).calls)
             THEN <<>> ELSE Val(Val(data.result).calls)]

\* fetchOptionChain after the await: data.result is optionChain.result[0]; the
\* expiration list and the calls default to the empty list.
chainFromData(data) ==
  IF IsNull(data.result)
  THEN [ok |-> FALSE, error |-> PlainMessage("No options data for AAPL")]
  ELSE LET oc == Val(data.result)
       IN  [ok |-> TRUE,
            expirationDates |-> IF IsNull(oc.expirationDates) THEN <<>>
                                ELSE Val(oc.expirationDates),
            calls |-> IF IsNull(oc.calls) THEN <<>> ELSE Val(oc.calls)]

----------------------------------------------------------------------------
(* runAnalysis *)

\* Math.min(20, Math.max(3, parseInt(numStrikes) || 10)); raw is Null for NaN
nStrikes(raw) == Min(20, Max(3, IF IsNull(raw) \/ Val(raw) = 0 THEN 10 ELSE Val(raw)))

\* The chart responses a run is fed: no result, a live price with a name, a quote
\* close series alone, an adjusted-close series without a value before it, nothing.
RunCharts ==
  {c \in ChartShapes :
     \/ IsNull(c.result)
     \/ /\ Val(c.result).meta
             = Some([regularMarketPrice |-> Some(30000),
                     shortName |-> Some("Apple Inc."), symbol |-> Some("AAPL.MX")])
        /\ IsNull(Val(c.result).adjclose) /\ IsNull(Val(c.result).close)
     \/ /\ IsNull(Val(c.result).meta)
        /\ Val(c.result).adjclose \in {Null, Some(<<Null>>)}
        /\ Val(c.result).close \in {Null, Some(<<Some(29500)>>)}}

\* The expirations the feed lists: 16:00 of the days 1..MaxDay + 1.
RunExpirations == [d \in 1..(MaxDay + 1) |-> d * DaySec + CloseSec]

\* The call chains the feed returns: two quoted contracts with delta, or one contract
\* without quote and delta.
RunChains ==
  {<<Plain(31000, 1), Plain(29000, 2)>>,
   <<[strike |-> 30000, bid |-> Null, ask |-> Null, lastPrice |-> Some(640),
      delta |-> Null, contractSymbol |-> 1]>>}

\* The option-chain responses a run is fed.
RunOptionData ==
  {[result |-> Null]} \cup
  {[result |-> Some([expirationDates |-> e, calls |-> c])] :
     e \in {Null, Some(<<>>), Some(RunExpirations)},
     c \in {Null, Some(<<>>)} \cup {Some(ch) : ch \in RunChains}}

\* What the body fetchWithProxies returned holds for the chart endpoint, resp. the
\* options endpoint: a body of the other kind lacks the expected member.
ChartsIn(body) == IF body = "chartJson" THEN RunCharts ELSE {[result |-> Null]}
OptionDataIn(body) == IF body = "chainJson" THEN RunOptionData ELSE {[result |-> Null]}

\* The component after construction: the initial values of the useState cells.
\* progress holds the texts runAnalysis sets itself; those set through the status
\* callback during a fetch are recorded in fw.statusCalls.
IdleRun ==
  /\ ui = [spotPrice |-> Null, stockName |-> "", matchedExpiry |-> Null,
           optionChain |-> Null, rankedOptions |-> Null,
           loading |-> FALSE, progress |-> "", error |-> Null]
  /\ run = [pc |-> "idle"]

\* One entry of the record of what a run has called so far.
Invoked(op, arg) == [op |-> op, arg |-> arg]

\* Variant of Fails that leaves the loading flag set.
FailsStillLoading(message, stage, data) ==
  /\ ui' = [ui EXCEPT !.error = Some(message)]
  /\ run' = [run EXCEPT !.pc = "done", !.failedAt = stage, !.data = data]
  /\ UNCHANGED fw

\* catch (e) { setError(e.message); } finally { setLoading(false); }; data is the
\* parsed response the failing check looked at, if any.
Fails(message, stage, data) ==
  /\ ui' = [ui EXCEPT !.error = Some(message), !.loading = FALSE]
  /\ run' = [run EXCEPT !.pc = "done", !.failedAt = stage, !.data = data]
  /\ UNCHANGED fw

\* runAnalysis is called (button or Enter key) while no run is in progress: the
\* resets, then fetchSpotPrice up to the first await of its fetchWithProxies.
StartRun ==
  /\ run.pc \in {"idle", "done"}
  /\ \E day \in 1..(MaxDay + 1) :
       run' = [pc |-> "spot", targetExpiry |-> day, nStrikes |-> nStrikes(Some(10)),
               data |-> Null, spot |-> Null, best |-> Null, calls |-> <<>>,
               analyzed |-> Null,
               invoked |-> <<Invoked("fetchSpotPrice", Null)>>, failedAt |-> "none"]
  /\ ui' = [spotPrice |-> Null, stockName |-> "", matchedExpiry |-> Null,
            optionChain |-> Null, rankedOptions |-> Null,
            loading |-> TRUE, progress |-> "Initializing", error |-> Null]
  /\ fw' = RunLoop(NewCall("returns", "Fetching AAPL spot price", DefaultMaxAttempts))
  /\ UNCHANGED notRun

\* 1. The spot fetch has thrown.
SpotFetchFails ==
  /\ run.pc = "spot" /\ fw.pc = "thrown"
  /\ Fails(Val(fw.thrown), "spot", run.data)
  /\ UNCHANGED notRun

\* 1. The response holds no price.
SpotUnavailable ==
  /\ run.pc = "spot" /\ fw.pc = "returned"
  /\ \E data \in ChartsIn(Val(fw.data)) :
       LET spot == spotFromChart(data, Ticker) IN
       /\ ~spot.ok
       /\ Fails(spot.error, "spot", Some(data))
  /\ UNCHANGED notRun

\* 1. The price is shown; 2. the expirations are requested.
SpotFetched ==
  /\ run.pc = "spot" /\ fw.pc = "returned"
  /\ \E data \in ChartsIn(Val(fw.data)) :
       LET spot == spotFromChart(data, Ticker) IN
       /\ spot.ok
       /\ ui' = [ui EXCEPT !.spotPrice = Some(spot.price), !.stockName = spot.name,
                           !.progress = "Loading available expirations"]
       /\ run' = [run EXCEPT !.pc = "expirations", !.data = Some(data),
                             !.spot = Some([price |-> spot.price, name |-> spot.name]),
                             !.invoked = Append(@, Invoked("fetchOptionChain", Null))]
  /\ fw' = RunLoop(NewCall("returns", "Fetching AAPL options chain", DefaultMaxAttempts))
  /\ UNCHANGED notRun

\* 2. The fetch of the expirations has thrown.
ExpirationsFetchFail ==
  /\ run.pc = "expirations" /\ fw.pc = "thrown"
  /\ Fails(Val(fw.thrown), "expirations", run.data)
  /\ UNCHANGED notRun

\* 2. The response holds no option-chain result, or no expiration.
ExpirationsUnavailable ==
  /\ run.pc = "expirations" /\ fw.pc = "returned"
  /\ \E data \in OptionDataIn(Val(fw.data)) :
       LET initial == chainFromData(data) IN
       \/ ~initial.ok /\ Fails(initial.error, "expirations", Some(data))
       \/ /\ initial.ok /\ Len(initial.expirationDates) = 0
          /\ Fails(PlainMessage("No options available for AAPL"), "expirations", Some(data))
  /\ UNCHANGED notRun

\* 3. The closest expiration is matched and shown; 4. its chain is requested.
ExpirationsFetched ==
  /\ run.pc = "expirations" /\ fw.pc = "returned"
  /\ \E data \in OptionDataIn(Val(fw.data)) :
       LET initial == chainFromData(data) IN
       /\ initial.ok /\ Len(initial.expirationDates) # 0
       /\ LET matched == findClosestExpiry(initial.expirationDates, run.targetExpiry) IN
          /\ ui' = [ui EXCEPT !.matchedExpiry = matched, !.progress = "Loading calls"]
          /\ run' = [run EXCEPT
                       !.pc = "chain", !.data = Some(data), !.best = matched,
                       !.invoked = @ \o <<Invoked("findClosestExpiry",
                                                  Some(Len(initial.expirationDates))),
                                          Invoked("fetchOptionChain", matched)>>]
  /\ fw' = RunLoop(NewCall("returns", "Fetching AAPL options chain", DefaultMaxAttempts))
  /\ UNCHANGED notRun

\* 4. The fetch of the chain has thrown.
ChainFetchFails ==
  /\ run.pc = "chain" /\ fw.pc = "thrown"
  /\ Fails(Val(fw.thrown), "chain", run.data)
  /\ UNCHANGED notRun

\* 4. The response holds no option-chain result, or no call.
ChainUnavailable ==
  /\ run.pc = "chain" /\ fw.pc = "returned"
  /\ \E data \in OptionDataIn(Val(fw.data)) :
       LET chain == chainFromData(data) IN
       \/ ~chain.ok /\ Fails(chain.error, "chain", Some(data))
       \/ /\ chain.ok /\ Len(chain.calls) = 0
          /\ Fails(PlainMessage("No call options found for this expiry"), "chain",
                   Some(data))
  /\ UNCHANGED notRun

\* 4. The chain has calls; 5. the first pause of 80 ms begins.
ChainFetched ==
  /\ run.pc = "chain" /\ fw.pc = "returned"
  /\ \E data \in OptionDataIn(Val(fw.data)) :
       LET chain == chainFromData(data) IN
       /\ chain.ok /\ Len(chain.calls) # 0
       /\ run' = [run EXCEPT !.pc = "analyzePause", !.data = Some(data),
                             !.calls = chain.calls]
  /\ ui' = [ui EXCEPT !.progress = "Computing extrinsic values from market prices"]
  /\ UNCHANGED <<fw, notRun>>

\* 5. After the pause the calls are analyzed and shown; 6. the second pause begins.
Analyzed ==
  /\ run.pc = "analyzePause"
  /\ \E clockMs \in {(DaySec * 1000) \div 2, DaySec * 1000 + 1} :
       LET result == analyzeCallOptions(run.calls, Val(run.spot).price, Val(run.best),
                                        run.nStrikes, clockMs) IN
       /\ ui' = [ui EXCEPT !.optionChain = Some(result), !.progress = "Ranking by efficiency"]
       /\ run' = [run EXCEPT !.pc = "rankPause", !.analyzed = Some(result),
                             !.invoked = Append(@, Invoked("analyzeCallOptions",
                                                           Some(Len(run.calls))))]
  /\ UNCHANGED <<fw, notRun>>

\* 6. After the pause the ranking is shown, and the run ends: finally setLoading(false).
Ranked ==
  /\ run.pc = "rankPause"
  /\ ui' = [ui EXCEPT !.rankedOptions = Some(rankByEfficiency(Val(run.analyzed))),
                      !.progress = "Done!", !.loading = FALSE]
  /\ run' = [run EXCEPT !.pc = "done",
                        !.invoked = Append(@, Invoked("rankByEfficiency",
                                                      Some(Len(Val(run.analyzed)))))]
  /\ UNCHANGED <<fw, notRun>>

\* The steps of a run in progress: those of its fetch and its own.
RunSteps ==
  \/ FetchRejects \/ FetchNotOk \/ FetchOk
  \/ TextRejects \/ TextTooShort \/ TextNotJson \/ TextParsed
  \/ SleepDone
  \/ SpotFetchFails \/ SpotUnavailable \/ SpotFetched
  \/ ExpirationsFetchFail \/ ExpirationsUnavailable \/ ExpirationsFetched
  \/ ChainFetchFails \/ ChainUnavailable \/ ChainFetched
  \/ Analyzed \/ Ranked

NextRun == StartRun \/ RunSteps

----------------------------------------------------------------------------
(* runAnalysis, activations that overlap *)

\* How many activations are started.
MaxRuns == 2

\* The cells of the component's state an activation sets.
Cells == {"spotPrice", "stockName", "matchedExpiry", "optionChain", "rankedOptions",
          "loading", "error"}

IdleOverlap == acts = <<>> /\ wrote = [c \in Cells |-> 0]

\* The cells in set are marked as last set by activation i.
Mark(i, set) == [c \in Cells |-> IF c \in set THEN i ELSE wrote[c]]

\* What awaiting fetchSpotPrice can yield: the relay client throws, or the call
\* returns or throws on the parsed response (one without result, one with a live
\* price).
SpotOutcomes ==
  {[ok |-> FALSE, error |-> FailureMessage("Fetching AAPL spot price", Null)]}
  \cup {spotFromChart(data, Ticker) :
          data \in {c \in RunCharts : IsNull(c.result) \/ ~IsNull(Val(c.result).meta)}}

\* What awaiting fetchOptionChain can yield (responses without result, without
\* expirations or calls, or with the chain of two contracts).
ChainOutcomes ==
  {[ok |-> FALSE, error |-> FailureMessage("Fetching AAPL options chain", Null)]}
  \cup {chainFromData(data) :
          data \in {d \in RunOptionData :
                      \/ IsNull(d.result) \/ IsNull(Val(d.result).calls)
                      \/ Len(Val(Val(d.result).calls)) # 1}}

\* Variant of StartOverlapping that leaves the result fields as they are.
StartWithoutReset ==
  /\ Len(acts) < MaxRuns
  /\ \E day \in {1, MaxDay + 1} :
       acts' = Append(acts, [pc |-> "spot", targetExpiry |-> day,
                             nStrikes |-> nStrikes(Some(10)),
                             spot |-> Null, best |-> Null, calls |-> <<>>,
                             analyzed |-> Null, failedAt |-> "none"])
  /\ ui' = [ui EXCEPT !.loading = TRUE, !.progress = "Initializing", !.error = Null]
  /\ wrote' = Mark(Len(acts) + 1, Cells)
  /\ UNCHANGED notOverlap

\* runAnalysis is called while earlier activations may be in progress (the Enter key
\* calls it whatever loading is): the resets, then fetchSpotPrice up to its await.
StartOverlapping ==
  /\ Len(acts) < MaxRuns
  /\ \E day \in {1, MaxDay + 1} :
       acts' = Append(acts, [pc |-> "spot", targetExpiry |-> day,
                             nStrikes |-> nStrikes(Some(10)),
                             spot |-> Null, best |-> Null, calls |-> <<>>,
                             analyzed |-> Null, failedAt |-> "none"])
  /\ ui' = [spotPrice |-> Null, stockName |-> "", matchedExpiry |-> Null,
            optionChain |-> Null, rankedOptions |-> Null,
            loading |-> TRUE, progress |-> "Initializing", error |-> Null]
  /\ wrote' = Mark(Len(acts) + 1, Cells)
  /\ UNCHANGED notOverlap

\* Variant of FailsIn that leaves the loading flag set.
FailsInStillLoading(i, message, stage) ==
  /\ ui' = [ui EXCEPT !.error = Some(message)]
  /\ acts' = [acts EXCEPT ![i].pc = "done", ![i].failedAt = stage]
  /\ wrote' = Mark(i, {"error", "loading"})

\* catch (e) { setError(e.message); } finally { setLoading(false); } in activation i
FailsIn(i, message, stage) ==
  /\ ui' = [ui EXCEPT !.error = Some(message), !.loading = FALSE]
  /\ acts' = [acts EXCEPT ![i].pc = "done", ![i].failedAt = stage]
  /\ wrote' = Mark(i, {"error", "loading"})

\* 1. In some activation the spot fetch has thrown, or the response holds no price.
SpotFailsIn ==
  \E i \in 1..Len(acts) :
    /\ acts[i].pc = "spot"
    /\ \E spot \in SpotOutcomes : ~spot.ok /\ FailsIn(i, spot.error, "spot")
    /\ UNCHANGED notOverlap

\* 1. The price is shown; 2. the expirations are requested.
SpotFetchedIn ==
  \E i \in 1..Len(acts) :
    /\ acts[i].pc = "spot"
    /\ \E spot \in SpotOutcomes :
         /\ spot.ok
         /\ ui' = [ui EXCEPT !.spotPrice = Some(spot.price), !.stockName = spot.name,
                             !.progress = "Loading available expirations"]
         /\ acts' = [acts EXCEPT ![i].pc = "expirations",
                                 ![i].spot = Some([price |-> spot.price, name |-> spot.name])]
    /\ wrote' = Mark(i, {"spotPrice", "stockName"})
    /\ UNCHANGED notOverlap

\* 2. The fetch of the expirations has thrown, or the response lists none.
ExpirationsFailIn ==
  \E i \in 1..Len(acts) :
    /\ acts[i].pc = "expirations"
    /\ \E initial \in ChainOutcomes :
         \/ ~initial.ok /\ FailsIn(i, initial.error, "expirations")
         \/ /\ initial.ok /\ Len(initial.expirationDates) = 0
            /\ FailsIn(i, PlainMessage("No options available for AAPL"), "expirations")
    /\ UNCHANGED notOverlap

\* 3. The closest expiration is matched and shown; 4. its chain is requested.
ExpirationsFetchedIn ==
  \E i \in 1..Len(acts) :
    /\ acts[i].pc = "expirations"
    /\ \E initial \in ChainOutcomes :
         /\ initial.ok /\ Len(initial.expirationDates) # 0
         /\ LET matched == findClosestExpiry(initial.expirationDates, acts[i].targetExpiry) IN
            /\ ui' = [ui EXCEPT !.matchedExpiry = matched, !.progress = "Loading calls"]
            /\ acts' = [acts EXCEPT ![i].pc = "chain", ![i].best = matched]
    /\ wrote' = Mark(i, {"matchedExpiry"})
    /\ UNCHANGED notOverlap

\* 4. The fetch of the chain has thrown, or the response holds no call.
ChainFailsIn ==
  \E i \in 1..Len(acts) :
    /\ acts[i].pc = "chain"
    /\ \E chain \in ChainOutcomes :
         \/ ~chain.ok /\ FailsIn(i, chain.error, "chain")
         \/ /\ chain.ok /\ Len(chain.calls) = 0
            /\ FailsIn(i, PlainMessage("No call options found for this expiry"), "chain")
    /\ UNCHANGED notOverlap

\* 4. The chain has calls; 5. the first pause of 80 ms begins.
ChainFetchedIn ==
  \E i \in 1..Len(acts) :
    /\ acts[i].pc = "chain"
    /\ \E chain \in ChainOutcomes :
         /\ chain.ok /\ Len(chain.calls) # 0
         /\ acts' = [acts EXCEPT ![i].pc = "analyzePause", ![i].calls = chain.calls]
    /\ ui' = [ui EXCEPT !.progress = "Computing extrinsic values from market prices"]
    /\ UNCHANGED <<wrote, notOverlap>>

\* 5. After the pause the calls are analyzed and shown; 6. the second pause begins.
AnalyzedIn ==
  \E i \in 1..Len(acts) :
    /\ acts[i].pc = "analyzePause"
    /\ \E clockMs \in {(DaySec * 1000) \div 2} :
         LET result == analyzeCallOptions(acts[i].calls, Val(acts[i].spot).price,
                                          Val(acts[i].best), acts[i].nStrikes, clockMs) IN
         /\ ui' = [ui EXCEPT !.optionChain = Some(result),
                             !.progress = "Ranking by efficiency"]
         /\ acts' = [acts EXCEPT ![i].pc = "rankPause", ![i].analyzed = Some(result)]
    /\ wrote' = Mark(i, {"optionChain"})
    /\ UNCHANGED notOverlap

\* 6. After the pause the ranking is shown and the activation ends: setLoading(false).
RankedIn ==
  \E i \in 1..Len(acts) :
    /\ acts[i].pc = "rankPause"
    /\ ui' = [ui EXCEPT !.rankedOptions = Some(rankByEfficiency(Val(acts[i].analyzed))),
                        !.progress = "Done!", !.loading = FALSE]
    /\ acts' = [acts EXCEPT ![i].pc = "done"]
    /\ wrote' = Mark(i, {"rankedOptions", "loading"})
    /\ UNCHANGED notOverlap

NextOverlap ==
  \/ StartOverlapping
  \/ SpotFailsIn \/ SpotFetchedIn
  \/ ExpirationsFailIn \/ ExpirationsFetchedIn
  \/ ChainFailsIn \/ ChainFetchedIn
  \/ AnalyzedIn \/ RankedIn

FetchOnly   == InitFetch /\ IdleRank /\ IdleExpiry /\ IdleAnalyze /\ IdleSpot /\ IdleRun /\ IdleOverlap
RankOnly    == IdleFetch /\ InitRank /\ IdleExpiry /\ IdleAnalyze /\ IdleSpot /\ IdleRun /\ IdleOverlap
ExpiryOnly  == IdleFetch /\ IdleRank /\ InitExpiry /\ IdleAnalyze /\ IdleSpot /\ IdleRun /\ IdleOverlap
AnalyzeOnly == IdleFetch /\ IdleRank /\ IdleExpiry /\ InitAnalyze /\ IdleSpot /\ IdleRun /\ IdleOverlap
SpotOnly    == IdleFetch /\ IdleRank /\ IdleExpiry /\ IdleAnalyze /\ InitSpot /\ IdleRun /\ IdleOverlap
RunOnly     == IdleFetch /\ IdleRank /\ IdleExpiry /\ IdleAnalyze /\ IdleSpot /\ IdleRun /\ IdleOverlap
OverlapOnly == IdleFetch /\ IdleRank /\ IdleExpiry /\ IdleAnalyze /\ IdleSpot /\ IdleRun /\ IdleOverlap

SpecFetch   == FetchOnly /\ [][NextFetch]_vars
SpecRank    == RankOnly /\ [][NextRank]_vars
SpecExpiry  == ExpiryOnly /\ [][NextExpiry]_vars
SpecAnalyze == AnalyzeOnly /\ [][NextAnalyze]_vars
SpecSpot    == SpotOnly /\ [][NextSpot]_vars
SpecRun     == RunOnly /\ [][NextRun]_vars
SpecOverlap == OverlapOnly /\ [][NextOverlap]_vars

Init == FetchOnly \/ RankOnly \/ ExpiryOnly \/ AnalyzeOnly \/ SpotOnly \/ RunOnly \/ OverlapOnly

Next == NextFetch \/ NextRank \/ NextExpiry \/ NextAnalyze \/ NextSpot \/ NextRun
          \/ NextOverlap

Spec == Init /\ [][Next]_vars

----------------------------------------------------------------------------
(* Properties of fetchWithProxies *)

AttemptBudget(f) == f.maxAttempts * Len(proxyBuilders)

\* C1: when the first k attempts fail and attempt k+1 brings an OK response whose body
\* has at least 30 characters and parses, the call returns that parsed body, with
\* k+1 within maxAttempts x (number of builders); k requests and k \div n sleeps came
\* before it, and nothing is requested and no sleep starts after the return.
C1_FirstSuccessReturned ==
  /\ [](fw.pc # "idle" /\ ~IsNull(fw.resp) /\ ~TooShort(Val(fw.resp))
          /\ ~IsNull(Val(fw.resp).json)
        => /\ fw.pc = "returned"
           /\ fw.data = Val(fw.resp).json
           /\ fw.nFailed = fw.nAttempts - 1
           /\ fw.nAttempts <= AttemptBudget(fw)
           /\ Len(fw.requests) = fw.nAttempts
           /\ Len(fw.sleeps) = fw.nFailed \div Len(proxyBuilders))
  /\ [](fw.pc = "returned" => ~IsNull(fw.resp) /\ fw.data = Val(fw.resp).json)
  /\ [][fw.pc = "returned" => fw' = fw]_vars

\* A success after seven failures of several kinds, one pause behind it.
C1_Witness ==
  /\ fw.pc = "returned"
  /\ fw.nFailed = 7
  /\ fw.sleeps = <<SleepMs(0)>>
  /\ fw.data = Some("chainJson")
  /\ ~IsNull(fw.lastErr)

\* C2: the call throws exactly when every attempt of every round has failed: at the
\* throw maxAttempts x (number of builders) attempts were made (15 with the default 3)
\* and all failed, the thrown message carries the caller's label, and a call whose
\* attempts have all failed has thrown.
C2_FailsOnlyWhenExhausted ==
  fw.pc # "idle" =>
    /\ fw.pc = "thrown" =>
         /\ fw.nAttempts = AttemptBudget(fw)
         /\ fw.nFailed = fw.nAttempts
         /\ fw.maxAttempts = DefaultMaxAttempts => fw.nAttempts = 15
         /\ ~IsNull(fw.thrown) /\ Val(fw.thrown).label = fw.label
         /\ IsNull(fw.data)
    /\ fw.nFailed = AttemptBudget(fw) => fw.pc = "thrown"
    /\ fw.pc # "thrown" => IsNull(fw.thrown)

\* Fifteen failed requests under the default budget.
C2_Witness ==
  /\ fw.pc = "thrown"
  /\ fw.maxAttempts = DefaultMaxAttempts
  /\ Len(fw.requests) = 15
  /\ fw.label = "Fetching AAPL options chain"

----------------------------------------------------------------------------
(* Properties of rankByEfficiency *)

\* The ranked record r is the input contract o with a rank added.
SameContract(r, o) == \A f \in DOMAIN o : r[f] = o[f]

\* The place of a ranked contract in the input list (strikes are distinct there).
InputIndex(r) == CHOOSE i \in 1..Len(options) : options[i].strike = r.strike

IsRankable(o) == o.extrinsic > ExtrinsicMin
Scored(o) == ~IsNull(o.efficiencyScore) /\ Val(o.efficiencyScore).n > 0
SomeRankableHasScore ==
  \E i \in 1..Len(options) : IsRankable(options[i]) /\ ~IsNull(options[i].efficiencyScore)

\* C3: the output holds exactly the input contracts with extrinsic > 0.01, each once,
\* none with extrinsic <= 0.01, and its rank fields are 1, 2, ..., N in order.
C3_RankIsBijection ==
  ~IsNull(ranked) =>
    LET R == Val(ranked) IN
    /\ \A k \in 1..Len(R) : R[k].rank = k
    /\ \A i \in 1..Len(options) :
         Cardinality({k \in 1..Len(R) : SameContract(R[k], options[i])})
           = IF options[i].extrinsic > ExtrinsicMin THEN 1 ELSE 0
    /\ \A k \in 1..Len(R) :
         /\ R[k].extrinsic > ExtrinsicMin
         /\ \E i \in 1..Len(options) : SameContract(R[k], options[i])

\* Three contracts in, the middle one at exactly 0.01 dropped, the other two reordered.
C3_Witness ==
  /\ ~IsNull(ranked)
  /\ Len(options) = 3
  /\ options[2].extrinsic = ExtrinsicMin
  /\ Len(Val(ranked)) = 2
  /\ Val(ranked)[1].strike = options[3].strike
  /\ Val(ranked)[2].strike = options[1].strike

\* C4: when some rankable contract has a non-null efficiencyScore, every scored
\* contract (score non-null and > 0) ranks ahead of every unscored one, the scored
\* block is in non-increasing efficiencyScore order and the unscored block in
\* non-increasing fallbackScore order.
C4_ScoredAheadOfUnscored ==
  (~IsNull(ranked) /\ SomeRankableHasScore) =>
    LET R == Val(ranked) IN
    \A k, l \in 1..Len(R) :
      k < l =>
        /\ ~(~Scored(R[k]) /\ Scored(R[l]))
        /\ (Scored(R[k]) /\ Scored(R[l]))
             => RatCmp(Val(R[k].efficiencyScore), Val(R[l].efficiencyScore)) >= 0
        /\ (~Scored(R[k]) /\ ~Scored(R[l]))
             => RatCmp(R[k].fallbackScore, R[l].fallbackScore) >= 0

\* An unscored contract first in the input ends last, behind two scored ones that
\* swapped places.
C4_Witness ==
  /\ ~IsNull(ranked)
  /\ Len(Val(ranked)) = 3
  /\ LET R == Val(ranked) IN
     /\ Scored(R[1]) /\ Scored(R[2]) /\ ~Scored(R[3])
     /\ InputIndex(R[3]) = 1 /\ InputIndex(R[1]) = 3
     /\ RatCmp(Val(R[1].efficiencyScore), Val(R[2].efficiencyScore)) > 0

\* C5: when no rankable contract has a non-null efficiencyScore, the output is the
\* whole rankable set in non-increasing fallbackScore order with ranks 1..N, also
\* when a non-rankable contract of the input has a non-null efficiencyScore.
C5_PureFallbackOrdering ==
  (~IsNull(ranked) /\ ~SomeRankableHasScore) =>
    LET R == Val(ranked) IN
    /\ Len(R) = Cardinality({i \in 1..Len(options) : IsRankable(options[i])})
    /\ \A i \in 1..Len(options) :
         IsRankable(options[i]) => \E k \in 1..Len(R) : SameContract(R[k], options[i])
    /\ \A k \in 1..Len(R) : R[k].rank = k
    /\ \A k, l \in 1..Len(R) :
         k < l => RatCmp(R[k].fallbackScore, R[l].fallbackScore) >= 0

\* A non-rankable contract carries a score, the two rankable ones carry none and
\* come out in the reverse of their input order.
C5_Witness ==
  /\ ~IsNull(ranked)
  /\ ~SomeRankableHasScore
  /\ \E i \in 1..Len(options) :
       ~IsRankable(options[i]) /\ ~IsNull(options[i].efficiencyScore)
  /\ Len(Val(ranked)) = 2
  /\ LET R == Val(ranked) IN
     /\ InputIndex(R[1]) > InputIndex(R[2])
     /\ RatCmp(R[1].fallbackScore, R[2].fallbackScore) > 0

\* C6: two contracts of the same block (both scored, or both unscored, which covers
\* the pure-fallback ordering) with equal sort keys keep their input order.
C6_StableTieBreak ==
  ~IsNull(ranked) =>
    LET R == Val(ranked) IN
    \A k, l \in 1..Len(R) :
      k < l =>
        /\ (Scored(R[k]) /\ Scored(R[l])
            /\ RatCmp(Val(R[k].efficiencyScore), Val(R[l].efficiencyScore)) = 0)
             => InputIndex(R[k]) < InputIndex(R[l])
        /\ (~Scored(R[k]) /\ ~Scored(R[l])
            /\ RatCmp(R[k].fallbackScore, R[l].fallbackScore) = 0)
             => InputIndex(R[k]) < InputIndex(R[l])

\* Two unscored contracts tie on fallbackScore behind a later contract that outranks
\* them, and two scored contracts tie on equal scores written as 1/2 and 2/4.
C6_Witness ==
  /\ ~IsNull(ranked)
  /\ Len(Val(ranked)) = 3
  /\ LET R == Val(ranked) IN
     \/ /\ ~Scored(R[1]) /\ ~Scored(R[2]) /\ ~Scored(R[3])
        /\ InputIndex(R[1]) = 3 /\ InputIndex(R[2]) = 1 /\ InputIndex(R[3]) = 2
        /\ RatCmp(R[2].fallbackScore, R[3].fallbackScore) = 0
        /\ RatCmp(R[1].fallbackScore, R[2].fallbackScore) > 0
     \/ /\ Scored(R[1]) /\ Scored(R[2]) /\ Scored(R[3])
        /\ InputIndex(R[1]) = 3 /\ InputIndex(R[2]) = 1 /\ InputIndex(R[3]) = 2
        /\ R[2].efficiencyScore # R[3].efficiencyScore
        /\ RatCmp(Val(R[2].efficiencyScore), Val(R[3].efficiencyScore)) = 0

----------------------------------------------------------------------------
(* Properties of findClosestExpiry *)

\* C7: for a non-empty list the result is an element of the list at minimal distance
\* from the 16:00 anchor of the target date, and the first such element of the list.
C7_ClosestExpiryFirstMinimum ==
  (~IsNull(best) /\ Len(available) > 0) =>
    /\ ~IsNull(Val(best))
    /\ LET ts      == Val(Val(best))
           Dist(x) == Abs(x - (targetDay * DaySec + CloseSec))
       IN  \E i \in 1..Len(available) :
             /\ available[i] = ts
             /\ \A j \in 1..Len(available) : Dist(available[j]) >= Dist(ts)
             /\ \A j \in 1..(i - 1) : Dist(available[j]) > Dist(ts)

\* An ascending list whose last two expirations are equally far from the anchor,
\* one before it and one after it: the earlier one is returned.
C7_Witness ==
  /\ ~IsNull(best)
  /\ Len(available) = 3
  /\ available[1] < available[2] /\ available[2] < available[3]
  /\ TargetAnchor(targetDay) - available[2] = available[3] - TargetAnchor(targetDay)
  /\ Val(best) = Some(available[2])

----------------------------------------------------------------------------
(* Properties of analyzeCallOptions *)

\* The input in ascending strike order, equal strikes in input order: the contract at
\* input place i stands behind those with a smaller strike and the earlier equal ones.
StrikeSorted(cs) ==
  LET Place(i) ==
        1 + Cardinality({j \in 1..Len(cs) :
                           \/ cs[j].strike < cs[i].strike
                           \/ cs[j].strike = cs[i].strike /\ j < i})
  IN  [k \in 1..Len(cs) |-> cs[CHOOSE i \in 1..Len(cs) : Place(i) = k]]

\* The first 0-based index of minimal |strike - spot| in the sorted list S, 0 if empty.
FirstAtm(S, spot) ==
  IF Len(S) = 0 THEN 0
  ELSE CHOOSE a \in 0..(Len(S) - 1) :
         /\ \A j \in 1..Len(S) : Abs(S[j].strike - spot) >= Abs(S[a + 1].strike - spot)
         /\ \A j \in 1..a : Abs(S[j].strike - spot) > Abs(S[a + 1].strike - spot)

\* The input contract an analyzed record was derived from.
SourceOf(a) == CHOOSE c \in Elements(calls) : c.contractSymbol = a.contractSymbol

\* C8: the output is the slice [max(0, atm - h), min(len, atm + h + 1)) of the
\* strike-sorted input, atm the first index of minimal |strike - spot|; it is in
\* ascending strike order, has at most 2h + 1 contracts and, for a non-empty input,
\* holds the ATM contract.
C8_WindowAroundAtm ==
  ~IsNull(analyzed) =>
    LET A   == Val(analyzed)
        S   == StrikeSorted(calls)
        h   == numStrikes
        atm == FirstAtm(S, spotPrice)
        lo  == IF atm - h > 0 THEN atm - h ELSE 0
        hi  == IF atm + h + 1 < Len(S) THEN atm + h + 1 ELSE Len(S)
    IN  /\ Len(A) = hi - lo
        /\ \A k \in 1..Len(A) :
             /\ A[k].strike = S[lo + k].strike
             /\ A[k].contractSymbol = S[lo + k].contractSymbol
        /\ \A k, l \in 1..Len(A) : k < l => A[k].strike <= A[l].strike
        /\ Len(A) <= 2 * h + 1
        /\ Len(calls) > 0 =>
             \E k \in 1..Len(A) : A[k].contractSymbol = S[atm + 1].contractSymbol

\* Strikes 155, 150, 145 given in descending order, spot 152.5 midway between 150 and
\* 155, half window 0: the output is the 150 contract alone.
C8_Witness ==
  /\ ~IsNull(analyzed)
  /\ Len(calls) = 3
  /\ calls[1].strike = 31000 /\ calls[2].strike = 30000 /\ calls[3].strike = 29000
  /\ spotPrice = 30500 /\ numStrikes = 0
  /\ Len(Val(analyzed)) = 1
  /\ Val(analyzed)[1].strike = 30000

\* C9: every analyzed record has intrinsic = max(0, spot - strike) >= 0 and
\* extrinsic = max(0, mid - intrinsic) >= 0 (spot and strike are >= 0 here); spot 150,
\* strike 145, mid 7.00 gives intrinsic 5.00 and extrinsic 2.00.
C9_IntrinsicExtrinsic ==
  ~IsNull(analyzed) =>
    \A k \in 1..Len(Val(analyzed)) :
      LET a == Val(analyzed)[k] IN
      /\ a.intrinsic = (IF spotPrice > a.strike THEN spotPrice - a.strike ELSE 0)
      /\ a.intrinsic >= 0
      /\ a.extrinsic = (IF a.mid > a.intrinsic THEN a.mid - a.intrinsic ELSE 0)
      /\ a.extrinsic >= 0
      /\ (spotPrice = 30000 /\ a.strike = 29000 /\ a.mid = 1400)
           => (a.intrinsic = 1000 /\ a.extrinsic = 400)

\* The scenario spot 150, strike 145, mid 7.00, next to a record whose mid lies
\* below its intrinsic value.
C9_Witness ==
  /\ ~IsNull(analyzed)
  /\ spotPrice = 30000
  /\ \E k \in 1..Len(Val(analyzed)) :
       LET a == Val(analyzed)[k] IN
       a.strike = 29000 /\ a.mid = 1400 /\ a.intrinsic = 1000 /\ a.extrinsic = 400
  /\ \E k \in 1..Len(Val(analyzed)) :
       LET a == Val(analyzed)[k] IN a.mid < a.intrinsic /\ a.extrinsic = 0

\* C10: mid = (bid + ask) / 2 when bid > 0 and ask > 0 (a missing bid or ask counts
\* as 0); otherwise lastPrice when it is present and not 0; otherwise 0.
C10_MidPrice ==
  ~IsNull(analyzed) =>
    \A k \in 1..Len(Val(analyzed)) :
      LET a   == Val(analyzed)[k]
          c   == SourceOf(a)
          bid == IF IsNull(c.bid) THEN 0 ELSE Val(c.bid)
          ask == IF IsNull(c.ask) THEN 0 ELSE Val(c.ask)
      IN  IF bid > 0 /\ ask > 0 THEN 2 * a.mid = bid + ask
          ELSE IF ~IsNull(c.lastPrice) /\ Val(c.lastPrice) # 0 THEN a.mid = Val(c.lastPrice)
          ELSE a.mid = 0

\* bid 0, ask 0, lastPrice 3.20 gives mid 3.20, next to a plainly quoted contract
\* (bid 2.40, ask 2.60) with mid 2.50.
C10_Witness ==
  /\ ~IsNull(analyzed)
  /\ \E k \in 1..Len(Val(analyzed)) :
       LET a == Val(analyzed)[k] IN
       /\ SourceOf(a).bid = Some(0) /\ SourceOf(a).ask = Some(0)
       /\ SourceOf(a).lastPrice = Some(640)
       /\ a.mid = 640
  /\ \E k \in 1..Len(Val(analyzed)) :
       LET a == Val(analyzed)[k] IN
       /\ SourceOf(a).bid = Some(480) /\ SourceOf(a).ask = Some(520)
       /\ a.strike = 32000 /\ spotPrice = 30000
       /\ a.mid = 500 /\ a.intrinsic = 0 /\ a.extrinsic = 500

\* C11: every record of one analysis carries the same dte, the least whole number of
\* days d >= 1 with d * 86400 s >= expirationTs - now; so dte >= 1 also for an
\* expiration in the past or later on the current day.
C11_DteAtLeastOne ==
  ~IsNull(analyzed) =>
    LET remainingMs == expiryTs * 1000 - nowMs
        dayMs       == 86400 * 1000
        d           == CHOOSE n \in 1..(MaxDay + 3) :
                         /\ n * dayMs >= remainingMs
                         /\ n > 1 => (n - 1) * dayMs < remainingMs
    IN  \A k \in 1..Len(Val(analyzed)) :
          /\ Val(analyzed)[k].dte = d
          /\ Val(analyzed)[k].dte >= 1

\* An expiration half a day in the past: two records, both with dte 1.
C11_Witness ==
  /\ ~IsNull(analyzed)
  /\ expiryTs * 1000 < nowMs
  /\ Len(Val(analyzed)) >= 2
  /\ \A k \in 1..Len(Val(analyzed)) : Val(analyzed)[k].dte = 1

\* C12: efficiencyScore is present exactly when the source delta is a number with
\* |delta| > 0.01, and is then extrinsicPerDTE / |delta|; fallbackScore is always
\* extrinsicPerDTE = extrinsic / dte; the reported delta is the source's, null when
\* the source has none.
C12_EfficiencyGuard ==
  ~IsNull(analyzed) =>
    \A k \in 1..Len(Val(analyzed)) :
      LET a == Val(analyzed)[k]
          c == SourceOf(a)
      IN  /\ a.delta = c.delta
          /\ IsNull(c.delta) => IsNull(a.delta) /\ a.delta # Some(0)
          /\ ~IsNull(a.efficiencyScore) <=> (~IsNull(c.delta) /\ Abs(Val(c.delta)) > 10)
          /\ ~IsNull(a.efficiencyScore) =>
               LET es == Val(a.efficiencyScore) IN
               /\ es.d # 0
               /\ es.n * a.extrinsicPerDTE.d * Abs(Val(c.delta))
                    = a.extrinsicPerDTE.n * 1000 * es.d
          /\ a.extrinsicPerDTE.d # 0
          /\ a.extrinsicPerDTE.n * a.dte = a.extrinsic * a.extrinsicPerDTE.d
          /\ a.fallbackScore.d # 0
          /\ a.fallbackScore.n * a.extrinsicPerDTE.d
               = a.extrinsicPerDTE.n * a.fallbackScore.d

\* A contract without delta (no efficiency score, delta reported as null) next to one
\* with delta 0.5, whose efficiency score is twice its extrinsic per day.
C12_Witness ==
  /\ ~IsNull(analyzed)
  /\ \E k \in 1..Len(Val(analyzed)) :
       LET a == Val(analyzed)[k] IN
       /\ IsNull(SourceOf(a).delta) /\ IsNull(a.delta) /\ IsNull(a.efficiencyScore)
       /\ a.extrinsic > 0 /\ a.fallbackScore.n > 0
  /\ \E k \in 1..Len(Val(analyzed)) :
       LET a == Val(analyzed)[k] IN
       /\ SourceOf(a).delta = Some(500) /\ ~IsNull(a.efficiencyScore)
       /\ a.extrinsic > 0
       /\ Val(a.efficiencyScore).n * a.extrinsicPerDTE.d
            = 2 * a.extrinsicPerDTE.n * Val(a.efficiencyScore).d

\* C16: the i-th request of a call (i = r * n + p + 1, round r, position p, n builders)
\* goes through builder (r + p) mod n; the n requests of a completed round go through
\* n different builders, the first of them builder r mod n; at most one request is
\* unsettled at any time, and one is exactly while the call awaits the response or
\* its body.
C16_Rotation ==
  fw.pc \notin {"idle", "start"} =>
    LET n        == Len(proxyBuilders)
        reqs     == fw.requests
        settled  == (IF fw.onStatus = "throws" THEN 0 ELSE fw.nFailed)
                      + (IF fw.pc = "returned" THEN 1 ELSE 0)
        inFlight == Len(reqs) - settled
    IN  /\ \A i \in 1..Len(reqs) :
             reqs[i] = ((((i - 1) \div n) + ((i - 1) % n)) % n) + 1
        /\ \A r \in 0..(fw.maxAttempts - 1) :
             (r + 1) * n <= Len(reqs) =>
               /\ {reqs[r * n + j] : j \in 1..n} = 1..n
               /\ reqs[r * n + 1] = (r % n) + 1
        /\ inFlight \in {0, 1}
        /\ inFlight = 1 <=> fw.pc \in {"fetching", "reading"}

\* Two rounds have failed and the first request of the third round, through the
\* third builder, is in flight.
C16_Witness ==
  /\ fw.pc = "fetching"
  /\ Len(fw.requests) = 2 * Len(proxyBuilders) + 1
  /\ fw.requests[1] = 1
  /\ fw.requests[Len(proxyBuilders)] = Len(proxyBuilders)
  /\ fw.requests[Len(proxyBuilders) + 1] = 2
  /\ fw.requests[2 * Len(proxyBuilders)] = 1
  /\ fw.requests[2 * Len(proxyBuilders) + 1] = 3

\* An attempt failed without an error being thrown: by status, body length or parse.
SoftKinds == {"badStatus", "shortBody", "badJson"}

C18_CallbackObservesOnly ==
  fw.pc \notin {"idle", "start"} =>
    /\ Len(fw.requests) = fw.nAttempts
    /\ fw.onStatus # "absent" => Len(fw.statusCalls) = fw.nAttempts
    /\ fw.lastErr # Some(CallbackError)
    /\ fw.pc = "thrown" => Val(fw.thrown).detail # CallbackError

\* A call whose status callback throws ends without having issued a request, with
\* the callback's error in its message.
C18_Witness ==
  /\ fw.pc = "thrown"
  /\ fw.onStatus = "throws"
  /\ fw.requests = <<>>
  /\ Len(fw.statusCalls) = fw.maxAttempts * Len(proxyBuilders)
  /\ Val(fw.thrown).detail = CallbackError

\* C19: after r failed rounds of n attempts there have been min(r, maxAttempts - 1)
\* pauses, the i-th of 1.5 s * i; a pause follows only the failure of a whole round
\* that is not the last one, so none lies within a round, after the last round or
\* after a success; with 3 rounds: at most a pause of 1.5 s and one of 3 s.
C19_Backoff ==
  fw.pc \notin {"idle", "start"} =>
    LET n      == Len(proxyBuilders)
        rounds == fw.nFailed \div n
    IN  /\ Len(fw.sleeps) = (IF rounds < fw.maxAttempts - 1 THEN rounds ELSE fw.maxAttempts - 1)
        /\ \A i \in 1..Len(fw.sleeps) : fw.sleeps[i] = 1500 * i
        /\ fw.pc = "sleeping" =>
             /\ fw.nFailed % n = 0
             /\ rounds >= 1 /\ rounds < fw.maxAttempts
             /\ fw.nFailed = fw.nAttempts
        /\ fw.pc = "thrown" => Len(fw.sleeps) = fw.maxAttempts - 1
        /\ fw.maxAttempts = 3 =>
             fw.sleeps \in {<<>>, <<1500>>, <<1500, 3000>>}

\* All three rounds have failed: two pauses, of 1.5 s and 3 s, and none after the
\* last round.
C19_Witness ==
  /\ fw.pc = "thrown"
  /\ fw.onStatus = "returns"
  /\ Len(fw.requests) = 3 * Len(proxyBuilders)
  /\ fw.maxAttempts = 3
  /\ fw.nFailed = 3 * Len(proxyBuilders)
  /\ fw.sleeps = <<1500, 3000>>

----------------------------------------------------------------------------
(* Properties of fetchSpotPrice *)

\* The last value of a series that is not null, Null if the series is missing or has none.
LastValue(series) ==
  IF IsNull(series) \/ \A i \in 1..Len(Val(series)) : IsNull(Val(series)[i]) THEN Null
  ELSE LET last == CHOOSE i \in 1..Len(Val(series)) :
                     /\ ~IsNull(Val(series)[i])
                     /\ \A j \in (i + 1)..Len(Val(series)) : IsNull(Val(series)[j])
       IN  Val(series)[last]

\* The regular-market price of the metadata, Null if there is none (0 is none).
LivePrice(data) ==
  IF IsNull(data.result) \/ IsNull(Val(data.result).meta) THEN Null
  ELSE LET pr == Val(Val(data.result).meta).regularMarketPrice
       IN  IF ~IsNull(pr) /\ Val(pr) # 0 THEN pr ELSE Null

\* C15: a live price in the metadata is returned; without one, the last non-null
\* value of a historical series is; the call fails exactly when neither the metadata
\* nor the adjusted-close series nor the quote close series yields a price.
C15_SpotPriceSources ==
  ~IsNull(spotResult) =>
    LET data  == Val(spotData)
        r     == Val(spotResult)
        live  == LivePrice(data)
        adj   == IF IsNull(data.result) THEN Null ELSE LastValue(Val(data.result).adjclose)
        close == IF IsNull(data.result) THEN Null ELSE LastValue(Val(data.result).close)
    IN  /\ ~IsNull(live) => r.ok /\ r.price = Val(live)
        /\ IsNull(live) /\ r.ok => Some(r.price) \in {adj, close}
        /\ ~r.ok <=> (IsNull(live) /\ IsNull(adj) /\ IsNull(close))

\* No live price, an adjusted-close series holding only null, a quote close series
\* ending at 147.50: the call fails although the close series yields a price.
C15_Witness ==
  /\ ~IsNull(spotResult)
  /\ ~IsNull(Val(spotData).result)
  /\ IsNull(LivePrice(Val(spotData)))
  /\ Val(Val(spotData).result).adjclose = Some(<<Null>>)
  /\ Val(Val(spotData).result).close = Some(<<Some(29500)>>)
  /\ ~Val(spotResult).ok
  /\ Val(spotResult).error = PlainMessage("Could not extract price for AAPL")

----------------------------------------------------------------------------
(* Properties of runAnalysis *)

ResultFields == {"spotPrice", "matchedExpiry", "optionChain", "rankedOptions"}
Populated(field) == ~IsNull(ui[field])

\* What a run calls when every stage succeeds, by name.
Pipeline ==
  <<"fetchSpotPrice", "fetchOptionChain", "findClosestExpiry", "fetchOptionChain",
    "analyzeCallOptions", "rankByEfficiency">>
Called == [i \in 1..Len(run.invoked) |-> run.invoked[i].op]

\* C13: once the run has ended, either every result field is populated and there is
\* no error, or no result field is populated and there is an error.
C13_AllOrNothing ==
  run.pc = "done" =>
    \/ (\A f \in ResultFields : Populated(f)) /\ IsNull(ui.error)
    \/ (\A f \in ResultFields : ~Populated(f)) /\ ~IsNull(ui.error)

\* The chain fetch has failed after the price and the matched expiration had been
\* shown: the run has ended with an error next to both, which is what the summary
\* card is rendered on.
C13_Witness ==
  /\ run.pc = "done" /\ run.failedAt = "chain"
  /\ ~IsNull(ui.error) /\ ~ui.loading
  /\ Populated("spotPrice") /\ Populated("matchedExpiry")
  /\ ~Populated("optionChain") /\ ~Populated("rankedOptions")

\* An upper bound of the number of steps a fetch, resp. a run, has left: per attempt
\* still possible a response and a body read, per round a pause; per stage more
\* than a whole fetch.
FetchStepsLeft ==
  IF fw.pc \in {"idle", "returned", "thrown"} THEN 0
  ELSE 5 * (fw.maxAttempts * Len(proxyBuilders)
              - (fw.attempt * Len(proxyBuilders) + fw.p))
       + (CASE fw.pc = "sleeping" -> 4 [] fw.pc = "fetching" -> 3 [] fw.pc = "reading" -> 2)
StepsLeft ==
  FetchStepsLeft
    + 100 * (CASE run.pc = "spot" -> 5 [] run.pc = "expirations" -> 4
               [] run.pc = "chain" -> 3 [] run.pc = "analyzePause" -> 2
               [] run.pc = "rankPause" -> 1 [] OTHER -> 0)

\* A run in progress has a step to take: the pending response, body or pause can
\* settle, a settled fetch is continued, a pause of the run ends (Analyzed has no
\* guard but the position; its arguments are present).
StepPossible ==
  CASE fw.pc = "fetching" -> ENABLED (FetchRejects \/ FetchNotOk \/ FetchOk)
    [] fw.pc = "reading" ->
         ENABLED (TextRejects \/ TextTooShort \/ TextNotJson \/ TextParsed)
    [] fw.pc = "sleeping" -> ENABLED SleepDone
    [] run.pc = "spot" -> ENABLED (SpotFetchFails \/ SpotUnavailable \/ SpotFetched)
    [] run.pc = "expirations" ->
         ENABLED (ExpirationsFetchFail \/ ExpirationsUnavailable \/ ExpirationsFetched)
    [] run.pc = "chain" -> ENABLED (ChainFetchFails \/ ChainUnavailable \/ ChainFetched)
    [] run.pc = "analyzePause" ->
         ~IsNull(run.spot) /\ ~IsNull(run.best) /\ Len(run.calls) > 0
    [] run.pc = "rankPause" -> ENABLED Ranked
    [] OTHER -> FALSE

\* C14: a run in progress can always take a step and every step brings it closer to
\* its end (StepsLeft decreases and is 0 only at the end), so it ends, in success or
\* in error, and then loading = false; a run that failed at a stage has called
\* nothing beyond that stage, has no request pending, has written neither optionChain
\* nor rankedOptions, and shows the message of that failure; after the end nothing
\* happens until a new run starts, which is possible.
C14_RunTerminates ==
  /\ [](run.pc \notin {"idle", "done"} =>
          /\ StepPossible
          /\ StepsLeft > 0 /\ FetchStepsLeft < 100)
  /\ [][run.pc \notin {"idle", "done"} =>
          /\ StepsLeft' < StepsLeft
          /\ StepsLeft' = 0 <=> run'.pc = "done"]_vars
  /\ [](run.pc \notin {"idle", "done"} => ui.loading /\ IsNull(ui.error))
  /\ [](run.pc = "done" =>
          /\ ~ui.loading
          /\ fw.pc \in {"returned", "thrown"}
          /\ ENABLED StartRun
          /\ run.failedAt = "none" <=> IsNull(ui.error)
          /\ run.failedAt = "none" => Called = Pipeline
          /\ run.failedAt # "none" =>
               /\ Called = SubSeq(Pipeline, 1, CASE run.failedAt = "spot" -> 1
                                                 [] run.failedAt = "expirations" -> 2
                                                 [] run.failedAt = "chain" -> 4)
               /\ IsNull(ui.optionChain) /\ IsNull(ui.rankedOptions)
               /\ fw.pc = "thrown" => ui.error = fw.thrown
               /\ fw.pc = "returned" =>
                    Val(ui.error).label \in
                      CASE run.failedAt = "spot" ->
                             {"No data returned for AAPL", "Could not extract price for AAPL"}
                        [] run.failedAt = "expirations" ->
                             {"No options data for AAPL", "No options available for AAPL"}
                        [] run.failedAt = "chain" ->
                             {"No options data for AAPL",
                              "No call options found for this expiry"})
  /\ [][run.pc = "done" => run'.pc = "spot" /\ ui'.loading /\ IsNull(ui'.error)]_vars

\* The expirations were fetched after two failed rounds, then the fetch of the chain
\* failed in all three rounds: the run has ended with that fetch's message and
\* without analysis.
C14_Witness ==
  /\ run.pc = "done" /\ run.failedAt = "chain"
  /\ fw.pc = "thrown" /\ fw.nFailed = 3 * Len(proxyBuilders)
  /\ ui.error = Some([label |-> "Fetching AAPL options chain", detail |-> "All proxies failed"])
  /\ ~ui.loading
  /\ IsNull(ui.optionChain) /\ IsNull(ui.rankedOptions)
  /\ Len(run.invoked) = 4

\* What a parsed option-chain response lacks.
NoChainResult(data) == IsNull(data.result)
NoExpirations(data) ==
  ~IsNull(data.result) /\
    (IsNull(Val(data.result).expirationDates) \/ Val(Val(data.result).expirationDates) = <<>>)
NoCalls(data) ==
  ~IsNull(data.result) /\ (IsNull(Val(data.result).calls) \/ Val(Val(data.result).calls) = <<>>)

\* The parsed response of the expirations stage, resp. the chain stage, once that
\* stage's fetch has returned; Null otherwise.
ExpirationsResponse ==
  IF run.pc = "chain" \/ (run.pc = "done" /\ run.failedAt = "expirations" /\ fw.pc = "returned")
  THEN run.data ELSE Null
ChainResponse ==
  IF \/ run.pc \in {"analyzePause", "rankPause"}
     \/ run.pc = "done" /\ run.failedAt = "none"
     \/ run.pc = "done" /\ run.failedAt = "chain" /\ fw.pc = "returned"
  THEN run.data ELSE Null

\* C20: findClosestExpiry is only called with a non-empty list, analyzeCallOptions
\* only with a non-empty list of calls; a response without option-chain result or
\* without expirations ends the run with a data-unavailable message and no call of
\* the matcher, one without result or without calls ends it with such a message and
\* no call of the analyzer.
C20_PipelineGuards ==
  run.pc # "idle" =>
    /\ \A i \in 1..Len(run.invoked) :
         run.invoked[i].op \in {"findClosestExpiry", "analyzeCallOptions"}
           => Val(run.invoked[i].arg) > 0
    /\ ~IsNull(ExpirationsResponse) =>
         LET data == Val(ExpirationsResponse) IN
         IF NoChainResult(data) \/ NoExpirations(data)
         THEN /\ run.pc = "done"
              /\ ui.error = Some(PlainMessage(IF NoChainResult(data)
                                               THEN "No options data for AAPL"
                                               ELSE "No options available for AAPL"))
              /\ \A i \in 1..Len(Called) :
                   Called[i] \notin {"findClosestExpiry", "analyzeCallOptions"}
         ELSE /\ run.pc = "chain"
              /\ Called[3] = "findClosestExpiry"
              /\ run.invoked[3].arg = Some(Len(Val(Val(data.result).expirationDates)))
    /\ ~IsNull(ChainResponse) =>
         LET data == Val(ChainResponse) IN
         IF NoChainResult(data) \/ NoCalls(data)
         THEN /\ run.pc = "done"
              /\ ui.error = Some(PlainMessage(IF NoChainResult(data)
                                               THEN "No options data for AAPL"
                                               ELSE "No call options found for this expiry"))
              /\ \A i \in 1..Len(Called) : Called[i] # "analyzeCallOptions"
         ELSE /\ run.failedAt = "none"
              /\ run.calls = Val(Val(data.result).calls)
              /\ run.pc # "analyzePause" =>
                   /\ Called[5] = "analyzeCallOptions"
                   /\ run.invoked[5].arg = Some(Len(run.calls))

\* The chain response lists expirations but an empty list of calls: the run has ended
\* with the data-unavailable message after the matcher and before the analyzer.
C20_Witness ==
  /\ run.pc = "done" /\ run.failedAt = "chain" /\ fw.pc = "returned"
  /\ ~IsNull(run.data) /\ ~IsNull(Val(run.data).result)
  /\ Val(Val(run.data).result).calls = Some(<<>>)
  /\ ~IsNull(Val(Val(run.data).result).expirationDates)
  /\ Called = SubSeq(Pipeline, 1, 4)
  /\ run.invoked[3].arg = Some(Len(RunExpirations))
  /\ ui.error = Some(PlainMessage("No call options found for this expiry"))

----------------------------------------------------------------------------
(* Properties of overlapping activations of runAnalysis *)

InProgress(i) == acts[i].pc # "done"
Succeeded(i) == acts[i].pc = "done" /\ acts[i].failedAt = "none"

\* What activation i has to show for a result field so far: Null before it has
\* computed the value.
Shows(i, field) ==
  CASE field = "spotPrice" ->
         IF IsNull(acts[i].spot) THEN Null ELSE Some(Val(acts[i].spot).price)
    [] field = "matchedExpiry" -> acts[i].best
    [] field = "optionChain" -> acts[i].analyzed
    [] field = "rankedOptions" ->
         IF Succeeded(i) THEN Some(rankByEfficiency(Val(acts[i].analyzed))) ELSE Null

\* C21 as stated: once two or more activations have all ended in success, the four
\* result fields were all set last by one and the same activation, the one that
\* wrote last (the last write of an activation is that of rankedOptions).
C21_OneRunDisplayed ==
  (Len(acts) >= 2 /\ \A i \in 1..Len(acts) : Succeeded(i)) =>
    \A f \in ResultFields : wrote[f] = wrote["rankedOptions"]

\* C21: at any time each result field shows what the activation that set that field
\* last has computed for it (nothing before it has); once all activations have ended
\* in success every field is populated, there is no error, and rankedOptions is of
\* the activation that ended last. The fields may be of different activations.
C21_LastWritePerField ==
  /\ \A f \in ResultFields :
       IF wrote[f] = 0 THEN ui[f] = Null ELSE ui[f] = Shows(wrote[f], f)
  /\ (Len(acts) >= 1 /\ \A i \in 1..Len(acts) : Succeeded(i)) =>
       /\ \A f \in ResultFields : Populated(f)
       /\ IsNull(ui.error) /\ ~ui.loading
       /\ wrote["rankedOptions"] = wrote["loading"]

\* Two activations for different target dates have both ended in success: the price
\* and the matched expiration shown are of the second, the analyzed chain and the
\* ranking of the first, computed for the other expiration.
C21_Witness ==
  /\ Len(acts) = 2 /\ Succeeded(1) /\ Succeeded(2)
  /\ wrote["spotPrice"] = 2 /\ wrote["matchedExpiry"] = 2
  /\ wrote["optionChain"] = 1 /\ wrote["rankedOptions"] = 1
  /\ acts[1].best # acts[2].best
  /\ ui.matchedExpiry = acts[2].best
  /\ ui.optionChain = acts[1].analyzed /\ ui.optionChain # acts[2].analyzed
  /\ Val(ui.optionChain)[1].dte # Val(acts[2].analyzed)[1].dte

\* C22 as stated: loading is true whenever an activation is in progress (so it can
\* only be false when none is).
C22_LoadingWhileInProgress ==
  (\E i \in 1..Len(acts) : InProgress(i)) => ui.loading

\* C22: loading is false whenever no activation is in progress; it is true exactly
\* while the activation started last is in progress and no activation has ended
\* since that start: every start sets it, and every end of an activation clears it,
\* also while other activations are in progress.
C22_LoadingLastWrite ==
  /\ []((\A i \in 1..Len(acts) : ~InProgress(i)) => ~ui.loading)
  /\ [](ui.loading <=>
          /\ Len(acts) > 0
          /\ wrote["loading"] = Len(acts)
          /\ InProgress(Len(acts)))
  /\ [][/\ Len(acts') > Len(acts) => ui'.loading /\ wrote'["loading"] = Len(acts')
        /\ \A i \in 1..Len(acts) :
             InProgress(i) /\ acts'[i].pc = "done" =>
               ~ui'.loading /\ wrote'["loading"] = i
        /\ ui'.loading # ui.loading =>
             \/ Len(acts') > Len(acts)
             \/ \E i \in 1..Len(acts) : InProgress(i) /\ acts'[i].pc = "done"]_vars

\* The first activation has ended while the second, started before that end, is
\* still fetching: loading is false with an activation in progress.
C22_Witness ==
  /\ Len(acts) = 2
  /\ ~InProgress(1) /\ acts[2].pc = "chain"
  /\ wrote["loading"] = 1
  /\ ~ui.loading

====
